---- MODULE Spec2Model ----
(***************************************************************************)
(* Model of salesman (src/main.py): the station indexer of main, the       *)
(* weight-matrix builder to_matr, the greedy path finder find_best (its    *)
(* closures next and tsp) and the ranking loops of main.                   *)
(*                                                                         *)
(* A record of prepare_data is [route id, origin, destination, price,      *)
(* seconds]; the route id is never read after prepare_data and is left     *)
(* out.  Prices are floats in the source; they are modelled as integers    *)
(* (a fixed-point price), math.inf as the value Inf, compared with Lt.     *)
(* A Python dict is an insertion-ordered sequence of <<key, value>> pairs. *)
(* None is the empty tuple; an int returned where None may be returned is  *)
(* the 1-tuple <<n>>.                                                      *)
(***************************************************************************)
EXTENDS Integers, Sequences, FiniteSets, TLC

VARIABLES pc, data, v, ri, kind, matr, k, best_prices, best_time,
          N, g, start, node, cost, path, seen, ret, result

vars == <<pc, data, v, ri, kind, matr, k, best_prices, best_time,
          N, g, start, node, cost, path, seen, ret, result>>

mainVars == <<data, v, ri, kind, matr, k, best_prices, best_time>>
searchVars == <<N, g, start, node, cost, path, seen, ret, result>>

----------------------------------------------------------------------------
(* Bounds of the model *)

NumStations == 3
MaxRecs == 2
MaxWeight == 2
MaxN == 3
MaxW == 1
MaxKind == 2

(* Values of the program *)

PRICE == 0
DURATION == 1
Inf == -1
None == <<>>

StationIds == 1..NumStations
Weights == 0..MaxWeight
Records == [origin : StationIds, destination : StationIds,
            price : Weights, duration : Weights]
RecordLists == UNION {[1..m -> Records] : m \in 0..MaxRecs}

\* a < b on weights, where math.inf is greater than every number
Lt(a, b) == a # Inf /\ (b = Inf \/ a < b)

----------------------------------------------------------------------------
(* The station index: main, lines 149-155 *)

HasKey(d, key) == \E i \in 1..Len(d) : d[i][1] = key

Get(d, key) == d[CHOOSE i \in 1..Len(d) : d[i][1] = key][2]

\* Put without the membership test
PutAlways(d, key) == Append(d, <<key, Len(d)>>)

\* if r[i+1] not in v: v[r[i+1]] = len(v)
Put(d, key) == IF HasKey(d, key) THEN d ELSE Append(d, <<key, Len(d)>>)

\* for i in range(0, 2): origin r[1], then destination r[2]
IndexRecord(d, r) == Put(Put(d, r.origin), r.destination)

IndexStep ==
    /\ pc = "index"
    /\ IF ri <= Len(data)
          THEN /\ v' = IndexRecord(v, data[ri])
               /\ ri' = ri + 1
               /\ pc' = "index"
          ELSE /\ pc' = "to_matr"
               /\ UNCHANGED <<v, ri>>
    /\ UNCHANGED <<data, kind, matr, k, best_prices, best_time>>
    /\ UNCHANGED searchVars

----------------------------------------------------------------------------
(* to_matr, lines 31-63 *)

\* matr.append([math.inf] * len(v)), len(v) times
EmptyMatr(n) == [i \in 0..(n - 1) |-> [j \in 0..(n - 1) |-> Inf]]

\* kind == 0: r[3]; kind == 1: r[4]
Item(r, kd) == IF kd = PRICE THEN r.price ELSE r.duration

\* Update without the comparison: the last record wins
UpdateLastWrite(m, d, r, item) ==
    [m EXCEPT ![Get(d, r.origin)][Get(d, r.destination)] = item]

\* if item < matr[v[r[1]]][v[r[2]]]: matr[v[r[1]]][v[r[2]]] = item
Update(m, d, r, item) ==
    LET i == Get(d, r.origin)
        j == Get(d, r.destination)
    IN  IF Lt(item, m[i][j]) THEN [m EXCEPT ![i][j] = item] ELSE m

ToMatrInit ==
    /\ pc = "to_matr"
    /\ matr' = EmptyMatr(Len(v))
    /\ ri' = 1
    /\ pc' = "fill"
    /\ UNCHANGED <<data, v, kind, k, best_prices, best_time>>
    /\ UNCHANGED searchVars

\* one iteration of "for _, r in enumerate(data)"; the raise leaves to_matr
ToMatrStep ==
    /\ pc = "fill"
    /\ ri <= Len(data)
    /\ IF kind = PRICE \/ kind = DURATION
          THEN /\ matr' = Update(matr, v, data[ri], Item(data[ri], kind))
               /\ ri' = ri + 1
               /\ pc' = "fill"
          ELSE /\ pc' = "raised"
               /\ UNCHANGED <<matr, ri>>
    /\ UNCHANGED <<data, v, kind, k, best_prices, best_time>>
    /\ UNCHANGED searchVars

\* return matr
ToMatrReturn ==
    /\ pc = "fill"
    /\ ri > Len(data)
    /\ pc' = "returned"
    /\ UNCHANGED mainVars
    /\ UNCHANGED searchVars

----------------------------------------------------------------------------
(* Specification of the indexer followed by one call of to_matr with any   *)
(* kind: to_matr(v, data, kind).                                           *)

InitFrom(kinds) ==
    /\ pc = "index"
    /\ data \in RecordLists
    /\ v = <<>>
    /\ ri = 1
    /\ kind \in kinds
    /\ matr = <<>>
    /\ k = 0
    /\ best_prices = <<>>
    /\ best_time = <<>>
    /\ N = 0
    /\ g = <<>>
    /\ start = 0
    /\ node = 0
    /\ cost = 0
    /\ path = <<>>
    /\ seen = <<>>
    /\ ret = None
    /\ result = None

InitMatr == InitFrom(0..MaxKind)

NextMatr == IndexStep \/ ToMatrInit \/ ToMatrStep \/ ToMatrReturn

SpecMatr == InitMatr /\ [][NextMatr]_vars

----------------------------------------------------------------------------
(* find_best, lines 65-140 *)

\* Scan without the test of seen[i]
RECURSIVE ScanIgnoreSeen(_, _, _, _, _, _)
ScanIgnoreSeen(n, gg, sn, nd, i, min_node) ==
    IF i = n
       THEN min_node
       ELSE ScanIgnoreSeen(n, gg, sn, nd, i + 1,
                           IF Lt(gg[nd][i], min_node[2])
                              THEN <<i, gg[nd][i], gg[nd][i]>>
                              ELSE min_node)

\* Scan with <= for <: the last of equal minima wins
RECURSIVE ScanLastMin(_, _, _, _, _, _)
ScanLastMin(n, gg, sn, nd, i, min_node) ==
    IF i = n
       THEN min_node
       ELSE ScanLastMin(n, gg, sn, nd, i + 1,
                        IF ~sn[i] /\ gg[nd][i] # Inf
                                  /\ ~Lt(min_node[2], gg[nd][i])
                           THEN <<i, gg[nd][i], gg[nd][i]>>
                           ELSE min_node)

\* for i in range(N), lines 93-98; min_node is <<index, weight, this_cost>>
RECURSIVE Scan(_, _, _, _, _, _)
Scan(n, gg, sn, nd, i, min_node) ==
    IF i = n
       THEN min_node
       ELSE Scan(n, gg, sn, nd, i + 1,
                 IF ~sn[i] /\ Lt(gg[nd][i], min_node[2])
                    THEN <<i, gg[nd][i], gg[nd][i]>>
                    ELSE min_node)

\* next returning this_cost alone, curr_cost dropped
nextNoSum(n, gg, sn, nd, curr_cost) ==
    LET min_node == Scan(n, gg, sn, nd, 0, <<-1, Inf, 0>>)
    IN  IF min_node[1] = -1
           THEN None
           ELSE <<min_node[3], min_node[1]>>

\* next falling back to station 0 when no unvisited station is reachable
nextRevisit(n, gg, sn, nd, curr_cost) ==
    LET min_node == Scan(n, gg, sn, nd, 0, <<-1, Inf, 0>>)
    IN  IF min_node[1] = -1
           THEN <<curr_cost, 0>>
           ELSE <<curr_cost + min_node[3], min_node[1]>>

\* next(node, curr_cost), lines 80-103: None or <<new cost, index>>
next(n, gg, sn, nd, curr_cost) ==
    LET min_node == Scan(n, gg, sn, nd, 0, <<-1, Inf, 0>>)
    IN  IF min_node[1] = -1
           THEN None
           ELSE <<curr_cost + min_node[3], min_node[1]>>

\* "not result" of line 137, result being None or an int
NotResult(r) == r = None \/ r[1] = 0

\* one call of tsp(node, cost), lines 105-134; the recursive call of line
\* 134 is the next step
Tsp ==
    /\ pc = "tsp"
    /\ LET seen1 == [seen EXCEPT ![node] = TRUE]
           path1 == Append(path, node)
           next_nd == next(N, g, seen1, node, cost)
       IN  /\ seen' = seen1
           /\ path' = path1
           /\ IF Len(path1) = N
                 THEN /\ ret' = <<cost>>
                      /\ pc' = "tsp_ret"
                      /\ UNCHANGED <<node, cost>>
                 ELSE IF next_nd = None
                         THEN /\ ret' = None
                              /\ pc' = "tsp_ret"
                              /\ UNCHANGED <<node, cost>>
                         ELSE /\ cost' = next_nd[1]
                              /\ node' = next_nd[2]
                              /\ pc' = "tsp"
                              /\ UNCHANGED ret
    /\ UNCHANGED <<N, g, start, result>>
    /\ UNCHANGED mainVars

\* lines 136-140: result = tsp(node, cost); if not result: return None
FindBestReturn ==
    /\ pc = "tsp_ret"
    /\ result' = IF NotResult(ret) THEN None ELSE <<ret[1], path>>
    /\ pc' = "fb_ret"
    /\ UNCHANGED <<N, g, start, node, cost, path, seen, ret>>
    /\ UNCHANGED mainVars

----------------------------------------------------------------------------
(* Specification of one call find_best(N, g, start) on any N x N matrix.   *)

MatrWeights == {Inf} \cup (0..MaxW)

InitFB ==
    /\ pc = "tsp"
    /\ data = <<>>
    /\ v = <<>>
    /\ ri = 1
    /\ kind = PRICE
    /\ matr = <<>>
    /\ k = 0
    /\ best_prices = <<>>
    /\ best_time = <<>>
    /\ N \in 1..MaxN
    /\ g \in [0..(N - 1) -> [0..(N - 1) -> MatrWeights]]
    /\ start \in 0..(N - 1)
    /\ node = start
    /\ cost = 0
    /\ path = <<>>
    /\ seen = [i \in 0..(N - 1) |-> FALSE]
    /\ ret = None
    /\ result = None

NextFB == Tsp \/ FindBestReturn

SpecFB == InitFB /\ [][NextFB]_vars

\* find_best runs synchronously on one thread: a call that can take a step
\* takes it
FairSpecFB == SpecFB /\ WF_vars(NextFB)

----------------------------------------------------------------------------
(* The two ranking passes of main, lines 157-181 (the prints left out)     *)

\* the position el takes in a list sorted by el[0], after every element
\* whose key is not greater: list.sort is stable
InsertByCost(s, el) ==
    LET p == Cardinality({i \in 1..Len(s) : ~Lt(el[1], s[i][1])})
    IN  SubSeq(s, 1, p) \o <<el>> \o SubSeq(s, p + 1, Len(s))

\* best.sort(key=lambda el: el[0])
RECURSIVE SortByCost(_)
SortByCost(s) ==
    IF s = <<>>
       THEN s
       ELSE InsertByCost(SortByCost(SubSeq(s, 1, Len(s) - 1)), s[Len(s)])

\* for k in v: result = find_best(len(v), g, v[k])
CallFindBest ==
    /\ pc \in {"returned", "loop"}
    /\ k < Len(v)
    /\ N' = Len(v)
    /\ g' = matr
    /\ start' = v[k + 1][2]
    /\ node' = v[k + 1][2]
    /\ cost' = 0
    /\ path' = <<>>
    /\ seen' = [i \in 0..(Len(v) - 1) |-> FALSE]
    /\ ret' = None
    /\ result' = None
    /\ pc' = "tsp"
    /\ UNCHANGED mainVars

\* if not result: continue; best.append(result)
Collect ==
    /\ pc = "fb_ret"
    /\ IF result = None
          THEN UNCHANGED <<best_prices, best_time>>
          ELSE IF kind = PRICE
                  THEN /\ best_prices' = Append(best_prices, result)
                       /\ UNCHANGED best_time
                  ELSE /\ best_time' = Append(best_time, result)
                       /\ UNCHANGED best_prices
    /\ k' = k + 1
    /\ pc' = "loop"
    /\ UNCHANGED <<data, v, ri, kind, matr>>
    /\ UNCHANGED searchVars

\* the loop over v is over: sort, then the pass by time or the end of main
SortBest ==
    /\ pc \in {"returned", "loop"}
    /\ k = Len(v)
    /\ IF kind = PRICE
          THEN /\ best_prices' = SortByCost(best_prices)
               /\ kind' = DURATION
               /\ k' = 0
               /\ pc' = "to_matr"
               /\ UNCHANGED best_time
          ELSE /\ best_time' = SortByCost(best_time)
               /\ pc' = "done"
               /\ UNCHANGED <<best_prices, kind, k>>
    /\ UNCHANGED <<data, v, ri, matr>>
    /\ UNCHANGED searchVars

Init == InitFrom({PRICE})

Next ==
    \/ IndexStep
    \/ ToMatrInit
    \/ ToMatrStep
    \/ ToMatrReturn
    \/ CallFindBest
    \/ Tsp
    \/ FindBestReturn
    \/ Collect
    \/ SortBest

Spec == Init /\ [][Next]_vars

----------------------------------------------------------------------------
(* Properties of find_best, checked under SpecFB                           *)

\* the sum of gg[p[i]][p[i+1]] over the consecutive pairs of p
RECURSIVE PathCost(_, _)
PathCost(gg, p) ==
    IF Len(p) < 2
       THEN 0
       ELSE PathCost(gg, SubSeq(p, 1, Len(p) - 1))
            + gg[p[Len(p) - 1]][p[Len(p)]]

Last(p) == p[Len(p)]

\* C1: for N = 1, find_best returns the present result (0, [start]),
\* whatever the single cell of the matrix holds.
C1_SingleStation ==
    (pc = "fb_ret" /\ N = 1) => result = <<0, <<start>>>>

\* C2: for N >= 2 and non-negative weights (zero allowed), a walk that
\* reaches a path of length N returns the present result (sum of the chosen
\* edge weights, path); no result is returned only when the walk got stuck
\* before visiting all N stations.
C2_FullWalkReturnsResult ==
    (pc = "fb_ret" /\ N >= 2) =>
        /\ Len(path) = N => result = <<PathCost(g, path), path>>
        /\ result = None => Len(path) < N

\* C3: a present result (totalCost, path) has a path of length N holding
\* every index of [0, N) exactly once and starting with start; every edge
\* traversed is finite and totalCost is the sum of the weights of the
\* consecutive pairs of the path.
C3_PathValidity ==
    (pc = "fb_ret" /\ result # None) =>
        LET p == result[2]
        IN  /\ Len(p) = N
            /\ {p[i] : i \in 1..Len(p)} = 0..(N - 1)
            /\ \A i, j \in 1..Len(p) : p[i] = p[j] => i = j
            /\ p[1] = start
            /\ \A i \in 1..(Len(p) - 1) : g[p[i]][p[i + 1]] # Inf
            /\ result[1] = PathCost(g, p)

C3_Witness ==
    /\ pc = "fb_ret"
    /\ result # None
    /\ N = 3
    /\ result[1] = 2
    /\ result[2][1] = 1

\* the stations of [0, N) outside the first n elements of the walk w
Unvisited(w, n) == (0..(N - 1)) \ {w[i] : i \in 1..n}

\* c is an unvisited station of finite weight from cur, of minimum weight
\* over the unvisited stations, and the lowest index among those of that
\* weight
GreedyChoice(cur, U, c) ==
    /\ c \in U
    /\ g[cur][c] # Inf
    /\ \A u \in U : g[cur][u] # Inf =>
           \/ g[cur][c] < g[cur][u]
           \/ g[cur][c] = g[cur][u] /\ c <= u

\* C5: every extension of the walk goes to an unvisited station of finite
\* weight, minimum over the unvisited stations, the lowest index among equal
\* minima; a visited station (the current node included) is never chosen.
C5_GreedyChoice ==
    (pc \in {"tsp", "tsp_ret", "fb_ret"}) =>
        LET walk == IF pc = "tsp" THEN Append(path, node) ELSE path
        IN  \A n \in 1..(Len(walk) - 1) :
                GreedyChoice(walk[n], Unvisited(walk, n), walk[n + 1])

C5_Witness ==
    /\ pc = "fb_ret"
    /\ N = 3
    /\ g[0][0] = 0
    /\ g[0][1] = 1
    /\ g[0][2] = 1
    /\ g[1][0] = 0
    /\ path = <<0, 1, 2>>

\* the walk stands at a node with fewer than N stations visited and no
\* unvisited station of finite weight from it
StuckAt ==
    /\ Len(path) >= 1
    /\ Len(path) < N
    /\ \A j \in 0..(N - 1) : ~seen[j] => g[Last(path)][j] = Inf

\* some order of all N stations from start has only finite edges
OtherOrderCovers ==
    \E p \in [1..N -> 0..(N - 1)] :
        /\ p[1] = start
        /\ \A i, j \in 1..N : p[i] = p[j] => i = j
        /\ \A i \in 1..(N - 1) : g[p[i]][p[i + 1]] # Inf

\* C6: when the walk stands at a node with fewer than N stations visited
\* and every unvisited station is at infinite weight from it, the walk is
\* over and tsp and find_best return None: no earlier choice is retried.
C6_StuckReturnsNone ==
    StuckAt =>
        /\ pc \in {"tsp_ret", "fb_ret"}
        /\ pc = "tsp_ret" => ret = None
        /\ pc = "fb_ret" => result = None

C6_Witness ==
    /\ pc = "fb_ret"
    /\ StuckAt
    /\ result = None
    /\ N = 3
    /\ Len(path) = 2
    /\ OtherOrderCovers

NoRepeat(p) == \A i, j \in 1..Len(p) : p[i] = p[j] => i = j

\* a step that extends the path marks exactly the one station node, which
\* was unvisited, and appends it
VisitsOne ==
    (path' # path) =>
        /\ ~seen[node]
        /\ seen' = [seen EXCEPT ![node] = TRUE]
        /\ path' = Append(path, node)

\* C10: a search terminates, with a result or none, after visiting at most
\* N nodes: each step marks one unvisited station and appends it, the path
\* has no repeated station and never exceeds length N.
C10_Terminates ==
    /\ [](Len(path) <= N /\ NoRepeat(path))
    /\ [][VisitsOne]_vars
    /\ <>(pc = "fb_ret")

C10_Witness ==
    /\ pc = "fb_ret"
    /\ N = 3
    /\ Len(path) = 3
    /\ seen = [i \in 0..2 |-> TRUE]

----------------------------------------------------------------------------
(* Properties of the indexer and to_matr, checked under SpecMatr           *)

IsDimension(kd) == kd = PRICE \/ kd = DURATION

\* the weight of record r in the dimension kd
DimWeight(r, kd) ==
    CASE kd = PRICE -> r.price
      [] kd = DURATION -> r.duration

\* the weights of the records from index i to index j
Contributing(i, j) ==
    {DimWeight(data[r], kind) :
        r \in {q \in 1..Len(data) : /\ Get(v, data[q].origin) = i
                                    /\ Get(v, data[q].destination) = j}}

\* C4: for each dimension the matrix returned is N x N; a cell holds the
\* minimum weight of the records between its two indices, self-loops
\* included, and infinity when there is no such record.
C4_MatrixMinimality ==
    (pc = "returned" /\ IsDimension(kind)) =>
        /\ DOMAIN matr = 0..(Len(v) - 1)
        /\ \A i \in 0..(Len(v) - 1) : DOMAIN matr[i] = 0..(Len(v) - 1)
        /\ \A i, j \in 0..(Len(v) - 1) :
               IF Contributing(i, j) = {}
                  THEN matr[i][j] = Inf
                  ELSE /\ matr[i][j] \in Contributing(i, j)
                       /\ \A w \in Contributing(i, j) : matr[i][j] <= w

C4_Witness ==
    /\ pc = "returned"
    /\ kind = DURATION
    /\ Len(v) = 1
    /\ Len(data) = 2
    /\ Contributing(0, 0) = {1, 2}
    /\ data[1].duration = 1
    /\ matr[0][0] = 1

\* C7: to_matr with a kind other than PRICE and DURATION raises, for every
\* record list, the empty one included: it never returns a matrix.
C7_InvalidKindRaises ==
    ~IsDimension(kind) => pc # "returned"

\* the stations of the records in scan order: origin, then destination
Occ == [q \in 1..(2 * Len(data)) |->
           IF q % 2 = 1 THEN data[(q + 1) \div 2].origin
                        ELSE data[q \div 2].destination]

FirstPos(s) == CHOOSE q \in 1..Len(Occ) :
                   Occ[q] = s /\ \A q2 \in 1..(q - 1) : Occ[q2] # s

\* C9: after the scan the index is a bijection between the stations of the
\* records and [0, N); the index of a station is the number of distinct
\* stations met before it; an empty record list gives an empty mapping.
C9_IndexBijection ==
    (pc # "index") =>
        /\ {v[i][1] : i \in 1..Len(v)} = {Occ[q] : q \in 1..Len(Occ)}
        /\ \A i, j \in 1..Len(v) : v[i][1] = v[j][1] => i = j
        /\ {v[i][2] : i \in 1..Len(v)} = 0..(Len(v) - 1)
        /\ \A i \in 1..Len(v) :
               v[i][2] = Cardinality({Occ[q] : q \in 1..(FirstPos(v[i][1]) - 1)})
        /\ data = <<>> => v = <<>>

C9_Witness ==
    /\ pc = "returned"
    /\ Len(data) = 2
    /\ data[1].origin = 3
    /\ data[1].destination = 1
    /\ data[2].origin = 1
    /\ data[2].destination = 2
    /\ v = <<<<3, 0>>, <<1, 1>>, <<2, 2>>>>

----------------------------------------------------------------------------
(* Property of the ranking passes of main, checked under Spec              *)

\* by totalCost ascending, equal costs by increasing starting station
Ranked(b) ==
    \A i, j \in 1..Len(b) : i < j =>
        \/ b[i][1] < b[j][1]
        \/ b[i][1] = b[j][1] /\ b[i][2][1] < b[j][2][1]

\* C8: for each dimension the ranked list holds exactly one entry for every
\* starting station whose walk covers all N stations and none for any other
\* station, ordered by totalCost ascending, equal costs in increasing
\* starting-station order.
C8_Ranking ==
    LET best == IF kind = PRICE THEN best_prices ELSE best_time
        entries == {i \in 1..Len(best) : best[i][2][1] = start}
    IN  /\ (pc = "loop" /\ Len(path) = N) => Cardinality(entries) = 1
        /\ (pc = "loop" /\ Len(path) < N) => entries = {}
        /\ (kind = DURATION) => Ranked(best_prices)
        /\ (pc = "done") => Ranked(best_time)

====
